---- MODULE Spec2Model ----
(***************************************************************************)
(* Model of multiagent_inspect/core.py: the SubAgent entity, the session   *)
(* registry kept in store()["sub_agents"], the run loop (_run_logic), the  *)
(* chat protocol (_chat_logic) and the tool-surface builder                *)
(* (init_sub_agents) with the three tools it returns.                      *)
(*                                                                         *)
(* Python objects are modelled by reference: `heap` holds the SubAgent     *)
(* objects, and the registry, the callers and the running coroutines hold  *)
(* indices into it.  A coroutine runs atomically between two awaits that   *)
(* really suspend (model.generate and call_tools); the awaits of           *)
(* _get_agent and _update_store never suspend, so they are part of the     *)
(* step that calls them.                                                   *)
(***************************************************************************)
EXTENDS Integers, Sequences, FiniteSets, TLC

(***************************************************************************)
(* Bounds of the model.                                                    *)
(***************************************************************************)
MaxAgents == 2        \* SubAgent objects constructed and kept
MaxStepsArg == 2      \* largest max_steps given to a constructor
MaxCalls == 2         \* run/chat invocations
MaxIdDraws == 1001    \* constructions followed in SpecIds
MaxExplicit == 1      \* constructions with an explicit id followed in SpecIds

(***************************************************************************)
(* Values.                                                                 *)
(***************************************************************************)
None == "None"
\* None where the code expects a str or a list (agent_id, sub_agent_id, tools)
NoneSeq == <<None>>
END_RUN == "_end_run"
DUMMY_TOOL == "dummy_tool"
DEFAULT_MODEL == "openai/gpt-4o-mini-2024-07-18-free"

\* A Python str that the code builds or inspects is a sequence of pieces;
\* an id is the sequence of its characters.
Digit == <<"0", "1", "2", "3", "4", "5", "6", "7", "8", "9">>

RECURSIVE Decimal(_)
Decimal(n) ==
    IF n < 10 THEN <<Digit[n + 1]>>
    ELSE Decimal(n \div 10) \o <<Digit[(n % 10) + 1]>>

RECURSIVE ZeroFill(_, _)
ZeroFill(s, width) ==
    IF Len(s) >= width THEN s ELSE ZeroFill(<<"0">> \o s, width)

\* f"{n:03d}"
Format03d(n) == ZeroFill(Decimal(n), 3)

\* f"{n}" of a small integer, as one piece
IntStr(n) == Decimal(n)

\* The ids a configuration supplies explicitly, the ids a caller may pass.
ExplicitIds == {<<"0", "0", "1">>}
UnknownId == <<"0", "0", "0">>

Instructions == {"instructions"}
Questions == {"question"}

\* What a constructor is called with.  agent_id and tools default to None.
ConstructorArgs ==
    {[agent_id |-> NoneSeq, max_steps |-> MaxStepsArg, tools |-> <<DUMMY_TOOL>>,
      public_description |-> "Test agent"],
     [agent_id |-> NoneSeq, max_steps |-> 1, tools |-> NoneSeq,
      public_description |-> ""],
     [agent_id |-> <<"0", "0", "1">>, max_steps |-> 1, tools |-> <<>>,
      public_description |-> "Test agent"]}

(***************************************************************************)
(* Messages.                                                               *)
(* `call` is auxiliary: the invocation that appended the message (0 for    *)
(* the constructor).                                                       *)
(***************************************************************************)
ChatMessageSystem ==
    [role |-> "system", content |-> "sys_msg", tool_calls |-> <<>>,
     function |-> None, call |-> 0]

ChatMessageUser(text, k) ==
    [role |-> "user", content |-> text, tool_calls |-> <<>>,
     function |-> None, call |-> k]

ChatMessageAssistant(text, calls, k) ==
    [role |-> "assistant", content |-> text, tool_calls |-> calls,
     function |-> None, call |-> k]

ChatMessageTool(fn, text, k) ==
    [role |-> "tool", content |-> text, tool_calls |-> <<>>,
     function |-> fn, call |-> k]

(***************************************************************************)
(* State.                                                                  *)
(***************************************************************************)
VARIABLES
    id_counter,   \* SubAgent._id_counter
    heap,         \* the SubAgent objects; a reference is an index
    store,        \* the session store's "sub_agents" entry
    issued,       \* the tools init_sub_agents has returned so far
    specs_out,    \* what the latest list-specs call returned (and, auxiliary,
                  \* the registry it read)
    inv,          \* the run/chat invocations, in the order they started
    registered,   \* auxiliary: the latest non-empty list given to the builder
    auto_ids,     \* auxiliary: the ids the constructor generated, in order
    n_explicit    \* auxiliary: constructions that were given an id

vars == <<id_counter, heap, store, issued, specs_out, inv, registered,
          auto_ids, n_explicit>>

NoneRef == 0
Refs == 1..Len(heap)

(***************************************************************************)
(* SubAgent.                                                               *)
(***************************************************************************)
\* (a variant of NextAgentId that forgets line 23, the increment)
NextAgentIdStuck(agent_id, counter) ==
    IF agent_id = NoneSeq
    THEN [agent_id |-> Format03d(counter), counter |-> counter]
    ELSE [agent_id |-> agent_id, counter |-> counter]

\* __init__: the id drawn for the object and the counter afterwards
NextAgentId(agent_id, counter) ==
    IF agent_id = NoneSeq
    THEN [agent_id |-> Format03d(counter), counter |-> counter + 1]
    ELSE [agent_id |-> agent_id, counter |-> counter]

\* (a variant of SubAgent that stores the termination tool with the tools)
SubAgentWithEndRun(args, counter) ==
    [agent_id |-> NextAgentId(args.agent_id, counter).agent_id,
     max_steps |-> args.max_steps,
     public_description |-> args.public_description,
     model |-> DEFAULT_MODEL,
     tools |-> IF args.tools = NoneSeq THEN <<END_RUN>>
               ELSE args.tools \o <<END_RUN>>,
     messages |-> <<ChatMessageSystem>>]

\* __init__: the object
SubAgent(args, counter) ==
    [agent_id |-> NextAgentId(args.agent_id, counter).agent_id,
     max_steps |-> args.max_steps,
     public_description |-> args.public_description,
     model |-> DEFAULT_MODEL,
     tools |-> args.tools,
     messages |-> <<ChatMessageSystem>>]

\* `if self.tools:` -- None and the empty list are both false
Truthy(tools) == tools # NoneSeq /\ tools # <<>>

\* f"{tool_names}": the repr of the list of names
RECURSIVE ListRepr(_)
ListRepr(names) ==
    IF names = <<>> THEN <<>>
    ELSE IF Len(names) = 1 THEN <<"'", names[1], "'">>
    ELSE <<"'", names[1], "'", ", ">> \o ListRepr(Tail(names))

\* __str__
__str__(e) ==
    <<"ID: ">> \o e.agent_id \o <<"\n">>
    \o <<"Model: ", e.model, "\n">>
    \o <<"Description: ", e.public_description, "\n">>
    \o <<"Max Steps: ">> \o IntStr(e.max_steps) \o <<"\n">>
    \o (IF Truthy(e.tools)
        THEN <<"Tools: ", "[">> \o ListRepr(e.tools) \o <<"]", "\n">>
        ELSE <<>>)

\* sep.join(parts)
RECURSIVE Join(_, _)
Join(sep, parts) ==
    IF parts = <<>> THEN <<>>
    ELSE IF Len(parts) = 1 THEN parts[1]
    ELSE parts[1] \o <<sep>> \o Join(sep, Tail(parts))

(***************************************************************************)
(* The registry: a dict in insertion order, a sequence of (key, value).    *)
(***************************************************************************)
EmptyDict == <<>>
DictKeys(d) == [i \in 1..Len(d) |-> d[i].key]
DictHas(d, key) == \E i \in 1..Len(d) : d[i].key = key
DictGet(d, key) == d[CHOOSE i \in 1..Len(d) : d[i].key = key].value

\* (a variant of DictSet that moves a key it replaces to the end)
DictSetLast(d, key, value) ==
    Append(SelectSeq(d, LAMBDA e : e.key # key),
           [key |-> key, value |-> value])

\* d[key] = value
DictSet(d, key, value) ==
    IF DictHas(d, key)
    THEN [i \in 1..Len(d) |->
            IF d[i].key = key THEN [key |-> key, value |-> value] ELSE d[i]]
    ELSE Append(d, [key |-> key, value |-> value])

\* {sub_agent.agent_id: sub_agent for sub_agent in sub_agents}
RECURSIVE DictOf(_, _)
DictOf(refs, h) ==
    IF refs = <<>> THEN EmptyDict
    ELSE DictSet(DictOf(SubSeq(refs, 1, Len(refs) - 1), h),
                 h[refs[Len(refs)]].agent_id, refs[Len(refs)])

\* store().get("sub_agents", default) and store().set("sub_agents", value)
NoStore == [has |-> FALSE, sub_agents |-> EmptyDict]
StoreGet(st, default) == IF st.has THEN st.sub_agents ELSE default
StoreSet(value) == [has |-> TRUE, sub_agents |-> value]

\* (a variant of _get_agent whose default is the last key, not the first)
_get_agent_last(st, sub_agent_id) ==
    LET sub_agents == StoreGet(st, EmptyDict) IN
    IF sub_agent_id = NoneSeq /\ sub_agents = EmptyDict
    THEN [raised |-> "IndexError", value |-> NoneRef]
    ELSE LET key == IF sub_agent_id = NoneSeq
                    THEN sub_agents[Len(sub_agents)].key
                    ELSE sub_agent_id
         IN IF ~DictHas(sub_agents, key)
            THEN [raised |-> None, value |-> NoneRef]
            ELSE [raised |-> None, value |-> DictGet(sub_agents, key)]

\* _get_agent: the reference found, NoneRef for None, or the exception
_get_agent(st, sub_agent_id) ==
    LET sub_agents == StoreGet(st, EmptyDict) IN
    IF sub_agent_id = NoneSeq /\ sub_agents = EmptyDict
    THEN [raised |-> "IndexError", value |-> NoneRef]
    ELSE LET key == IF sub_agent_id = NoneSeq
                    THEN sub_agents[1].key
                    ELSE sub_agent_id
         IN IF ~DictHas(sub_agents, key)
            THEN [raised |-> None, value |-> NoneRef]
            ELSE [raised |-> None, value |-> DictGet(sub_agents, key)]

\* (a variant of _update_store that writes back a mapping of its own)
_update_store_alone(st, h, ref) ==
    StoreSet(DictSet(EmptyDict, h[ref].agent_id, ref))

\* _update_store: the store after persisting the object `ref`
_update_store(st, h, ref) ==
    StoreSet(DictSet(StoreGet(st, EmptyDict), h[ref].agent_id, ref))

(***************************************************************************)
(* The tools init_sub_agents returns.  A tool is what its factory fixes:   *)
(* its name, the mode it was built in and the parameters of its execute.   *)
(***************************************************************************)
sub_agent_specs(single_sub_agent) ==
    [name |-> "sub_agent_specs", single_sub_agent |-> single_sub_agent,
     params |-> <<>>]

run_sub_agent(single_sub_agent) ==
    [name |-> "run_sub_agent", single_sub_agent |-> single_sub_agent,
     params |-> IF single_sub_agent THEN <<"instructions">>
                ELSE <<"sub_agent_id", "instructions">>]

chat_with_sub_agent(single_sub_agent) ==
    [name |-> "chat_with_sub_agent", single_sub_agent |-> single_sub_agent,
     params |-> IF single_sub_agent THEN <<"question">>
                ELSE <<"sub_agent_id", "question">>]

\* (a variant of init_sub_agents that writes the registry before it looks at
\* the length of the list)
init_sub_agents_writes_first(sub_agents, st, h) ==
    [ret |-> IF Len(sub_agents) < 1 THEN <<>>
             ELSE IF Len(sub_agents) > 1
             THEN <<sub_agent_specs(FALSE), run_sub_agent(FALSE),
                    chat_with_sub_agent(FALSE)>>
             ELSE <<sub_agent_specs(TRUE), run_sub_agent(TRUE),
                    chat_with_sub_agent(TRUE)>>,
     store |-> StoreSet(DictOf(sub_agents, h))]

\* (a variant of init_sub_agents that builds single-mode tools for any list)
init_sub_agents_single(sub_agents, st, h) ==
    IF Len(sub_agents) < 1 THEN [ret |-> <<>>, store |-> st]
    ELSE [ret |-> <<sub_agent_specs(TRUE), run_sub_agent(TRUE),
                    chat_with_sub_agent(TRUE)>>,
          store |-> StoreSet(DictOf(sub_agents, h))]

\* init_sub_agents: what it returns and the store it leaves
init_sub_agents(sub_agents, st, h) ==
    IF Len(sub_agents) < 1 THEN [ret |-> <<>>, store |-> st]
    ELSE [ret |-> IF Len(sub_agents) > 1
                  THEN <<sub_agent_specs(FALSE), run_sub_agent(FALSE),
                         chat_with_sub_agent(FALSE)>>
                  ELSE <<sub_agent_specs(TRUE), run_sub_agent(TRUE),
                         chat_with_sub_agent(TRUE)>>,
          store |-> StoreSet(DictOf(sub_agents, h))]

\* sub_agent_specs' execute: the text returned, or the exception
sub_agent_specs_execute(single_sub_agent, st, h) ==
    IF single_sub_agent
    THEN LET got == _get_agent(st, NoneSeq) IN
         IF got.raised # None THEN [raised |-> got.raised, text |-> <<>>]
         ELSE IF got.value = NoneRef THEN [raised |-> None, text |-> <<None>>]
         ELSE [raised |-> None, text |-> __str__(h[got.value])]
    ELSE \* iterating the dict yields its keys, and str(key) is the key
         [raised |-> None,
          text |-> Join("\n", DictKeys(StoreGet(st, EmptyDict)))]

(***************************************************************************)
(* The collaborators.                                                      *)
(***************************************************************************)
\* the tool calls a model response may request
ModelToolCalls ==
    {<<>>, <<DUMMY_TOOL>>, <<END_RUN, DUMMY_TOOL>>}

\* what a tool answers when call_tools runs it against `tools`
ToolText(fn, tools) ==
    IF ~(\E i \in 1..Len(tools) : tools[i] = fn) THEN "tool not found"
    ELSE IF fn = END_RUN THEN "Run ended with reason: stop_reason"
    ELSE "dummy123"

\* call_tools(message, tools): one result per requested call, in order
call_tools(message, tools) ==
    [i \in 1..Len(message.tool_calls) |->
        ChatMessageTool(message.tool_calls[i],
                        ToolText(message.tool_calls[i], tools), message.call)]

(***************************************************************************)
(* _run_logic and _chat_logic, cut at the awaits that suspend.             *)
(***************************************************************************)
NoMessage == ChatMessageAssistant(None, <<>>, 0)

\* every invocation started so far has returned or raised
Quiet == \A j \in 1..Len(inv) : inv[j].pc \in {"done", "failed"}

\* the frame of a call; `meanwhile` is auxiliary: the call started while an
\* earlier one was suspended
NewCall(kind, ref, text, h) ==
    [kind |-> kind, agent |-> ref, arg |-> text, pc |-> "failed",
     meanwhile |-> ~Quiet,
     error |-> None, failed_at |-> None, steps |-> 0, output |-> NoMessage,
     offered |-> <<>>,
     result |-> <<>>, n_generate |-> 0, n_call_tools |-> 0,
     n_update_store |-> 0,
     base |-> IF ref = NoneRef THEN <<>> ELSE h[ref].messages]

\* (a variant of AnyEndRun that never sees the termination result)
AnyEndRunNever(tool_results) == FALSE

\* any(tool_result.function == "_end_run" for tool_result in tool_results)
AnyEndRun(tool_results) ==
    \E i \in 1..Len(tool_results) : tool_results[i].function = END_RUN

\* (a variant of Extend that puts the results in front of the history)
ExtendInFront(messages, tool_results) == tool_results \o messages

\* (a variant of Extend that assigns the results instead of appending them)
ExtendReplaces(messages, tool_results) == tool_results

\* (a variant of Extend that keeps the first result only)
ExtendFirstOnly(messages, tool_results) ==
    IF tool_results = <<>> THEN messages
    ELSE Append(messages, tool_results[1])

\* sub_agent.messages.extend(tool_results)
Extend(messages, tool_results) == messages \o tool_results

\* (a variant of ChatTools that offers what a run offers)
ChatToolsAsRun(e) == e.tools \o <<END_RUN>>

\* the tools chat passes to generate: none
ChatTools(e) == <<>>

\* lines 77-79: build the tool list and call generate
BeginStep(c, e) ==
    IF e.tools = NoneSeq
    THEN [c EXCEPT !.pc = "failed", !.error = "TypeError"]
    ELSE [c EXCEPT !.pc = "generate", !.offered = e.tools \o <<END_RUN>>,
                   !.n_generate = @ + 1]

\* (a variant of StatusString that reports the number of executed steps)
StatusStringCount(steps) ==
    <<"Sub agent ran for ">> \o IntStr(steps + 1)
    \o <<" steps. You can now ask it questions.">>

\* f"Sub agent ran for {steps} steps. You can now ask it questions."
StatusString(steps) ==
    <<"Sub agent ran for ">> \o IntStr(steps)
    \o <<" steps. You can now ask it questions.">>

\* lines 91-92
ExitLoop(c) ==
    [c EXCEPT !.pc = "done", !.n_update_store = @ + 1,
              !.result = StatusString(c.steps)]

\* lines 76 and 88-92 at the end of a step: break, next index, or exit
EndStep(c, e, ended) ==
    IF ~ended /\ c.steps + 1 < e.max_steps
    THEN BeginStep([c EXCEPT !.steps = @ + 1], e)
    ELSE ExitLoop(c)

\* (a variant of EnterRun that answers an unknown id with a text)
EnterRunReportsUnknown(k, got, instructions, h) ==
    LET r == got.value
        c == NewCall("run", r, instructions, h)
    IN  IF got.raised # None
        THEN [call |-> [c EXCEPT !.error = got.raised], heap |-> h]
        ELSE IF r = NoneRef
        THEN [call |-> [c EXCEPT !.pc = "done", !.result = <<"not found">>],
              heap |-> h]
        ELSE [call |-> BeginStep(c, h[r]),
              heap |-> [h EXCEPT ![r].messages =
                          Append(@, ChatMessageUser(instructions, k))]]

\* lines 73-79: the call up to its first suspension
EnterRun(k, got, instructions, h) ==
    LET r == got.value
        c == NewCall("run", r, instructions, h)
    IN  IF got.raised # None
        THEN [call |-> [c EXCEPT !.error = got.raised], heap |-> h]
        ELSE IF r = NoneRef
        THEN [call |-> [c EXCEPT !.error = "AttributeError"], heap |-> h]
        ELSE LET h1 == [h EXCEPT ![r].messages =
                          Append(@, ChatMessageUser(instructions, k))]
             IN  IF h[r].max_steps < 1
                 THEN \* the loop body never runs and `steps` is unbound
                      [call |-> [c EXCEPT !.error = "UnboundLocalError",
                                          !.n_update_store = 1],
                       heap |-> h1]
                 ELSE [call |-> BeginStep(c, h[r]), heap |-> h1]

\* lines 94-99
EnterChat(k, got, question, h) ==
    LET r == got.value
        c == NewCall("chat", r, question, h)
    IN  IF got.raised # None
        THEN [call |-> [c EXCEPT !.error = got.raised], heap |-> h]
        ELSE IF r = NoneRef
        THEN [call |-> [c EXCEPT !.error = "AttributeError"], heap |-> h]
        ELSE [call |-> [c EXCEPT !.pc = "generate",
                                 !.offered = ChatTools(h[r]),
                                 !.n_generate = 1],
              heap |-> [h EXCEPT ![r].messages =
                          Append(@, ChatMessageUser(question, k))]]

\* the store after a step that took call c to c2
StoreAfter(c, c2, st, h) ==
    IF c2.n_update_store > c.n_update_store
    THEN _update_store(st, h, c.agent)
    ELSE st

(***************************************************************************)
(* Actions.                                                                *)
(***************************************************************************)
\* specs_out before the first list-specs call
NoSpecs ==
    [called |-> FALSE, single_sub_agent |-> FALSE, raised |-> None,
     text |-> <<>>, registry |-> EmptyDict]

Init ==
    /\ id_counter = 1
    /\ heap = <<>>
    /\ store = NoStore
    /\ issued = {}
    /\ specs_out = NoSpecs
    /\ inv = <<>>
    /\ registered = <<>>
    /\ auto_ids = <<>>
    /\ n_explicit = 0

\* SubAgent(...), the object kept by the caller
Construct(args) ==
    /\ Len(heap) < MaxAgents
    /\ heap' = Append(heap, SubAgent(args, id_counter))
    /\ id_counter' = NextAgentId(args.agent_id, id_counter).counter
    /\ auto_ids' = IF args.agent_id = NoneSeq
                   THEN Append(auto_ids, heap'[Len(heap')].agent_id)
                   ELSE auto_ids
    /\ UNCHANGED <<store, issued, specs_out, inv, registered, n_explicit>>

\* SubAgent(...), the object dropped again
ConstructDropped(args) ==
    /\ id_counter <= MaxIdDraws
    /\ args.agent_id # NoneSeq => n_explicit < MaxExplicit
    /\ id_counter' = NextAgentId(args.agent_id, id_counter).counter
    /\ auto_ids' = IF args.agent_id = NoneSeq
                   THEN Append(auto_ids, SubAgent(args, id_counter).agent_id)
                   ELSE auto_ids
    /\ n_explicit' = IF args.agent_id = NoneSeq THEN n_explicit
                     ELSE n_explicit + 1
    /\ UNCHANGED <<heap, store, issued, specs_out, inv, registered>>

\* the lists of kept objects a caller can pass to init_sub_agents
AllRefLists == UNION {[1..n -> 1..MaxAgents] : n \in 0..MaxAgents}
RefLists == {l \in AllRefLists : \A i \in 1..Len(l) : l[i] \in Refs}

InitSubAgents(sub_agents) ==
    /\ sub_agents \in RefLists
    /\ LET out == init_sub_agents(sub_agents, store, heap) IN
        /\ store' = out.store
        /\ issued' = issued \cup {out.ret[i] : i \in 1..Len(out.ret)}
    /\ registered' = IF sub_agents = <<>> THEN registered ELSE sub_agents
    /\ UNCHANGED <<id_counter, heap, specs_out, inv, auto_ids, n_explicit>>

ListSpecs(tool) ==
    /\ tool \in issued
    /\ tool.name = "sub_agent_specs"
    /\ LET out == sub_agent_specs_execute(tool.single_sub_agent, store, heap)
       IN  specs_out' = [called |-> TRUE,
                         single_sub_agent |-> tool.single_sub_agent,
                         raised |-> out.raised, text |-> out.text,
                         registry |-> StoreGet(store, EmptyDict)]
    /\ UNCHANGED <<id_counter, heap, store, issued, inv, registered, auto_ids,
                   n_explicit>>

\* the ids a caller may pass to a tool
IdArgs(tool) ==
    IF tool.single_sub_agent THEN {NoneSeq}
    ELSE {heap[r].agent_id : r \in Refs} \cup {UnknownId}

StartRun(tool, sub_agent_id, instructions) ==
    /\ tool \in issued
    /\ tool.name = "run_sub_agent"
    /\ Len(inv) < MaxCalls
    /\ sub_agent_id \in IdArgs(tool)
    /\ LET k == Len(inv) + 1
           out == EnterRun(k, _get_agent(store, sub_agent_id), instructions, heap)
       IN  /\ inv' = Append(inv, out.call)
           /\ heap' = out.heap
           /\ store' = StoreAfter(NewCall("run", out.call.agent, instructions, heap),
                                  out.call, store, out.heap)
    /\ UNCHANGED <<id_counter, issued, specs_out, registered, auto_ids,
                   n_explicit>>

StartChat(tool, sub_agent_id, question) ==
    /\ tool \in issued
    /\ tool.name = "chat_with_sub_agent"
    /\ Len(inv) < MaxCalls
    /\ sub_agent_id \in IdArgs(tool)
    /\ LET k == Len(inv) + 1
           out == EnterChat(k, _get_agent(store, sub_agent_id), question, heap)
       IN  /\ inv' = Append(inv, out.call)
           /\ heap' = out.heap
    /\ UNCHANGED <<id_counter, store, issued, specs_out, registered, auto_ids,
                   n_explicit>>

\* generate returns `output`; the coroutine runs on to its next suspension
GenerateReturns(k, tool_calls) ==
    /\ k \in 1..Len(inv)
    /\ inv[k].pc = "generate"
    /\ inv[k].kind = "chat" => tool_calls = <<>>
    /\ LET c == inv[k]
           r == c.agent
           message == ChatMessageAssistant("text", tool_calls, k)
           h1 == [heap EXCEPT ![r].messages = Append(@, message)]
           c1 == [c EXCEPT !.output = message]
           c2 == IF c.kind = "chat"
                 THEN [c1 EXCEPT !.pc = "done", !.n_update_store = @ + 1,
                                 !.result = <<message.content>>]
                 ELSE IF tool_calls # <<>>
                 THEN [c1 EXCEPT !.pc = "call_tools",
                                 !.offered = heap[r].tools \o <<END_RUN>>,
                                 !.n_call_tools = @ + 1]
                 ELSE EndStep(c1, heap[r], FALSE)
       IN  /\ heap' = h1
           /\ inv' = [inv EXCEPT ![k] = c2]
           /\ store' = StoreAfter(c, c2, store, h1)
    /\ UNCHANGED <<id_counter, issued, specs_out, registered, auto_ids,
                   n_explicit>>

\* call_tools returns its results
CallToolsReturns(k) ==
    /\ k \in 1..Len(inv)
    /\ inv[k].pc = "call_tools"
    /\ LET c == inv[k]
           r == c.agent
           tool_results == call_tools(c.output, c.offered)
           h1 == [heap EXCEPT ![r].messages = Extend(@, tool_results)]
           c2 == EndStep(c, heap[r], AnyEndRun(tool_results))
       IN  /\ heap' = h1
           /\ inv' = [inv EXCEPT ![k] = c2]
           /\ store' = StoreAfter(c, c2, store, h1)
    /\ UNCHANGED <<id_counter, issued, specs_out, registered, auto_ids,
                   n_explicit>>

\* (a variant of CollaboratorFails that undoes the invocation's appends)
CollaboratorFailsRollback(k) ==
    /\ k \in 1..Len(inv)
    /\ inv[k].pc \in {"generate", "call_tools"}
    /\ inv' = [inv EXCEPT ![k].pc = "failed", ![k].error = "collaborator",
                          ![k].failed_at = inv[k].pc]
    /\ heap' = [heap EXCEPT ![inv[k].agent].messages = inv[k].base]
    /\ UNCHANGED <<id_counter, store, issued, specs_out, registered,
                   auto_ids, n_explicit>>

\* generate or call_tools raises: the exception leaves the coroutine
CollaboratorFails(k) ==
    /\ k \in 1..Len(inv)
    /\ inv[k].pc \in {"generate", "call_tools"}
    /\ inv' = [inv EXCEPT ![k].pc = "failed", ![k].error = "collaborator",
                          ![k].failed_at = inv[k].pc]
    /\ UNCHANGED <<id_counter, heap, store, issued, specs_out, registered,
                   auto_ids, n_explicit>>

Tools == {sub_agent_specs(b) : b \in BOOLEAN}
         \cup {run_sub_agent(b) : b \in BOOLEAN}
         \cup {chat_with_sub_agent(b) : b \in BOOLEAN}
AllIds == {NoneSeq, UnknownId} \cup ExplicitIds
          \cup {Format03d(n) : n \in 1..MaxAgents}

\* one caller at a time: a tool is called when every earlier invocation has
\* returned or raised
RunTool(tool, sub_agent_id, instructions) ==
    /\ Quiet
    /\ StartRun(tool, sub_agent_id, instructions)

ChatTool(tool, sub_agent_id, question) ==
    /\ Quiet
    /\ StartChat(tool, sub_agent_id, question)

Next ==
    \/ \E args \in ConstructorArgs : Construct(args)
    \/ \E sub_agents \in AllRefLists : InitSubAgents(sub_agents)
    \/ \E tool \in Tools, id \in AllIds, text \in Instructions :
          RunTool(tool, id, text)
    \/ \E tool \in Tools, id \in AllIds, text \in Questions :
          ChatTool(tool, id, text)
    \/ \E k \in 1..MaxCalls, tool_calls \in ModelToolCalls :
          GenerateReturns(k, tool_calls)
    \/ \E k \in 1..MaxCalls : CallToolsReturns(k)
    \/ \E k \in 1..MaxCalls : CollaboratorFails(k)

Spec == Init /\ [][Next]_vars

\* the tool surface is built before the first tool call
BuildFirst(sub_agents) ==
    /\ inv = <<>>
    /\ InitSubAgents(sub_agents)

\* callers that do not wait for each other: a tool is called while earlier
\* invocations are suspended in generate or call_tools, which both return
NextConc ==
    \/ \E args \in ConstructorArgs : Construct(args)
    \/ \E sub_agents \in AllRefLists : BuildFirst(sub_agents)
    \/ \E tool \in Tools, id \in AllIds, text \in Instructions :
          StartRun(tool, id, text)
    \/ \E tool \in Tools, id \in AllIds, text \in Questions :
          StartChat(tool, id, text)
    \/ \E k \in 1..MaxCalls, tool_calls \in ModelToolCalls :
          GenerateReturns(k, tool_calls)
    \/ \E k \in 1..MaxCalls : CallToolsReturns(k)

\* the event loop resumes a coroutine once the collaborator it awaits returns
SpecConc ==
    /\ Init
    /\ [][NextConc]_vars
    /\ WF_vars(\E k \in 1..MaxCalls, tool_calls \in ModelToolCalls :
                  GenerateReturns(k, tool_calls))
    /\ WF_vars(\E k \in 1..MaxCalls : CallToolsReturns(k))

\* the builder and the list-specs tool, which reads the store and the
\* objects and changes neither
NextSurface ==
    \/ \E args \in ConstructorArgs : Construct(args)
    \/ \E sub_agents \in AllRefLists : InitSubAgents(sub_agents)
    \/ \E tool \in Tools : ListSpecs(tool)

SpecSurface == Init /\ [][NextSurface]_vars

\* constructions alone, followed past the thousandth generated id
NextIds == \E args \in ConstructorArgs : ConstructDropped(args)

SpecIds == Init /\ [][NextIds]_vars

(***************************************************************************)
(* Properties.                                                             *)
(***************************************************************************)
Calls == 1..Len(inv)
\* the invocations that resolved an entity
RunCalls == {k \in Calls : inv[k].kind = "run" /\ inv[k].agent # NoneRef}
ChatCalls == {k \in Calls : inv[k].kind = "chat" /\ inv[k].agent # NoneRef}

Entity(k) == heap[inv[k].agent]
IsOwn(k, m) == m.call = k
\* the messages invocation k appended to its entity, in history order
Own(k) == SelectSeq(Entity(k).messages, LAMBDA m : IsOwn(k, m))
IsAssistant(m) == m.role = "assistant"
Assistants(k) == SelectSeq(Own(k), IsAssistant)
IsEndRunResult(m) == m.role = "tool" /\ m.function = END_RUN
\* a termination-capability result is among the results of invocation k
Terminated(k) == \E i \in 1..Len(Own(k)) : IsEndRunResult(Own(k)[i])
Ended(k) == inv[k].pc \in {"done", "failed"}
Stepping(k) == inv[k].pc \in {"generate", "call_tools"}
CollaboratorFailed(k) == inv[k].failed_at # None
IsPrefix(s, t) == Len(s) <= Len(t) /\ SubSeq(t, 1, Len(s)) = s

\* C1: every run invocation (of any entity, collaborators not failing) makes
\* at most max_steps model invocations, and exactly max_steps once it has
\* ended without a termination result.
C1_RunBudget ==
    \A k \in RunCalls :
        ~CollaboratorFailed(k) =>
            /\ inv[k].n_generate <= Entity(k).max_steps
            /\ (Ended(k) /\ ~Terminated(k))
                   => inv[k].n_generate = Entity(k).max_steps

\* C1 on the entities that were given a tool list: the budget is respected
\* and, without a termination result, used up.
C1_RunBudgetWithTools ==
    \A k \in RunCalls :
        (~CollaboratorFailed(k) /\ Entity(k).tools # NoneSeq) =>
            /\ inv[k].n_generate <= Entity(k).max_steps
            /\ (Ended(k) /\ ~Terminated(k))
                   => inv[k].n_generate = Entity(k).max_steps

\* C2: once a termination result is among a run's tool results the run has
\* left the loop: no collaborator call is pending, every model invocation
\* and every dispatch it made lies at or before the step of that result
\* (no assistant message of the run follows it), whatever budget remains.
C2_StopsAtEndRun ==
    \A k \in RunCalls :
        Terminated(k) =>
            /\ inv[k].pc = "done"
            /\ inv[k].n_generate = Len(Assistants(k))
            /\ inv[k].n_call_tools =
                   Cardinality({i \in 1..Len(Own(k)) :
                       IsAssistant(Own(k)[i]) /\ Own(k)[i].tool_calls # <<>>})
            /\ \A i, j \in 1..Len(Own(k)) :
                   (IsEndRunResult(Own(k)[i]) /\ i < j) => Own(k)[j].role = "tool"

C2_Witness ==
    \E k \in RunCalls :
        /\ Terminated(k)
        /\ inv[k].pc = "done"
        /\ inv[k].n_generate < Entity(k).max_steps

\* the history a run must have appended, rebuilt from the model's responses
\* and the dispatcher's answers to them; `pending` says that the dispatch of
\* the last response has not returned
RECURSIVE StepBlocks(_, _, _)
StepBlocks(responses, tools, pending) ==
    IF responses = <<>> THEN <<>>
    ELSE LET a == Head(responses)
             results == IF a.tool_calls = <<>> \/ (pending /\ Len(responses) = 1)
                        THEN <<>>
                        ELSE call_tools(a, tools)
         IN  <<a>> \o results \o StepBlocks(Tail(responses), tools, pending)

DispatchPending(k) ==
    inv[k].pc = "call_tools" \/ inv[k].failed_at = "call_tools"

ExpectedOwn(k) ==
    <<ChatMessageUser(inv[k].arg, k)>>
    \o StepBlocks(Assistants(k), Entity(k).tools \o <<END_RUN>>,
                  DispatchPending(k))

\* C3: what a run appends is the user message with the instruction, then for
\* each executed step the assistant message followed by the dispatcher's
\* results for it, in the dispatcher's order, when it requested tool calls;
\* nothing else, and nothing on another entity.
C3_RunHistory ==
    \A k \in RunCalls :
        /\ Own(k) = ExpectedOwn(k)
        /\ Len(Assistants(k)) =
               inv[k].n_generate
               - (IF inv[k].pc = "generate" \/ inv[k].failed_at = "generate"
                  THEN 1 ELSE 0)
        /\ \A r \in Refs : \A i \in 1..Len(heap[r].messages) :
               heap[r].messages[i].call = k => r = inv[k].agent
        /\ k = Len(inv) => Entity(k).messages = inv[k].base \o ExpectedOwn(k)

C3_Witness ==
    \E k \in RunCalls :
        /\ inv[k].pc = "done"
        /\ Len(inv[k].base) > 1
        /\ Len(Assistants(k)) = 2
        /\ Assistants(k)[1].tool_calls = <<DUMMY_TOOL>>
        /\ Assistants(k)[2].tool_calls = <<END_RUN, DUMMY_TOOL>>
        /\ Len(Own(k)) = 6
        /\ Own(k)[6].function = DUMMY_TOOL

\* C4: a run whose collaborators do not fail persists exactly once: not
\* while it is stepping, and once by the time it has ended.
C4_PersistsOnce ==
    \A k \in RunCalls :
        ~CollaboratorFailed(k) =>
            /\ Stepping(k) => inv[k].n_update_store = 0
            /\ Ended(k) => inv[k].n_update_store = 1

\* C4 on the entities that were given a tool list.
C4_PersistsOnceWithTools ==
    \A k \in RunCalls :
        (~CollaboratorFailed(k) /\ Entity(k).tools # NoneSeq) =>
            /\ Stepping(k) => inv[k].n_update_store = 0
            /\ Ended(k) => inv[k].n_update_store = 1

\* what a lookup of the id of invocation k's entity returns now
LookupOf(k) == _get_agent(store, Entity(k).agent_id).value

\* C5 as stated: after a collaborator failure the registry shows the
\* history the entity had before the invocation started.
C5_FailureHidesMessages ==
    \A k \in RunCalls \cup ChatCalls :
        (CollaboratorFailed(k) /\ k = Len(inv) /\ LookupOf(k) # NoneRef)
            => heap[LookupOf(k)].messages = inv[k].base

\* C5 amended: the failing invocation never persists, yet the registry holds
\* the object it appended to: while the registry maps the id to that object,
\* a lookup shows the earlier history followed by everything the invocation
\* appended before it failed.
C5_FailureKeepsMessages ==
    \A k \in RunCalls \cup ChatCalls :
        CollaboratorFailed(k) =>
            /\ inv[k].n_update_store = 0
            /\ Own(k) # <<>>
            /\ Own(k)[1] = ChatMessageUser(inv[k].arg, k)
            /\ (k = Len(inv) /\ LookupOf(k) = inv[k].agent)
                   => heap[LookupOf(k)].messages = inv[k].base \o Own(k)

C5_Witness ==
    \E k \in RunCalls :
        /\ CollaboratorFailed(k)
        /\ k = Len(inv)
        /\ LookupOf(k) = inv[k].agent
        /\ Len(Own(k)) >= 3
        /\ Len(heap[LookupOf(k)].messages) = Len(inv[k].base) + Len(Own(k))

\* C6: a chat makes one model invocation with no tools, never dispatches,
\* and by the time it returns has appended the question and the response,
\* nothing more, and persisted once; whatever max_steps is and whatever ran
\* on the entity before.
C6_Chat ==
    \A k \in ChatCalls :
        /\ inv[k].n_generate = 1
        /\ inv[k].offered = <<>>
        /\ inv[k].n_call_tools = 0
        /\ inv[k].pc # "call_tools"
        /\ inv[k].pc = "done" =>
               /\ Own(k) = <<ChatMessageUser(inv[k].arg, k), inv[k].output>>
               /\ IsAssistant(inv[k].output)
               /\ inv[k].n_update_store = 1
               /\ inv[k].result = <<inv[k].output.content>>
        /\ inv[k].pc # "done" =>
               /\ Own(k) = <<ChatMessageUser(inv[k].arg, k)>>
               /\ inv[k].n_update_store = 0
        /\ k = Len(inv) => Entity(k).messages = inv[k].base \o Own(k)

C6_Witness ==
    \E j \in RunCalls, k \in ChatCalls :
        /\ j < k
        /\ inv[j].agent = inv[k].agent
        /\ inv[j].pc = "done"
        /\ inv[j].n_generate = Entity(j).max_steps
        /\ inv[k].pc = "done"
        /\ Len(Entity(k).messages) = Len(inv[k].base) + 2

HasParam(tool, name) == \E i \in 1..Len(tool.params) : tool.params[i] = name

\* C7: for every list the builder can be given it returns no tool for the
\* empty list, three tools whose run and chat take no sub_agent_id for a
\* list of one, and three whose run and chat take one for a longer list;
\* the tools handed out so far are of these shapes.
C7_Surface ==
    /\ \A sub_agents \in RefLists :
        LET ret == init_sub_agents(sub_agents, store, heap).ret IN
        /\ Len(sub_agents) = 0 => ret = <<>>
        /\ Len(sub_agents) >= 1 =>
              /\ Len(ret) = 3
              /\ ret[1].name = "sub_agent_specs"
              /\ ret[2].name = "run_sub_agent"
              /\ ret[3].name = "chat_with_sub_agent"
              /\ HasParam(ret[2], "sub_agent_id") <=> Len(sub_agents) >= 2
              /\ HasParam(ret[3], "sub_agent_id") <=> Len(sub_agents) >= 2
    /\ \A tool \in issued :
        /\ tool \in Tools
        /\ tool.name # "sub_agent_specs" =>
              (HasParam(tool, "sub_agent_id") <=> ~tool.single_sub_agent)
    /\ (issued = {}) <=> (registered = <<>>)
    /\ registered # <<>> =>
          \E tool \in issued :
              tool.single_sub_agent <=> Len(registered) = 1

C7_Witness ==
    /\ Len(heap) = MaxAgents
    /\ Len(registered) >= 2
    /\ run_sub_agent(TRUE) \in issued
    /\ run_sub_agent(FALSE) \in issued

DistinctIds ==
    \A r1, r2 \in Refs : r1 # r2 => heap[r1].agent_id # heap[r2].agent_id

Resolves ==
    /\ _get_agent(store, NoneSeq).raised = None
    /\ _get_agent(store, NoneSeq).value = registered[1]
    /\ \A i \in 1..Len(registered) :
           _get_agent(store, heap[registered[i]].agent_id).value = registered[i]

UnknownNotFound ==
    \A id \in AllIds \ {NoneSeq} :
        ~DictHas(StoreGet(store, EmptyDict), id)
            => _get_agent(store, id) = [raised |-> None, value |-> NoneRef]

DigitValue(ch) == CHOOSE d \in 0..9 : Digit[d + 1] = ch
IsDigits(s) == \A i \in 1..Len(s) : \E d \in 0..9 : Digit[d + 1] = s[i]

RECURSIVE ParseInt(_)
ParseInt(s) ==
    IF s = <<>> THEN 0
    ELSE ParseInt(SubSeq(s, 1, Len(s) - 1)) * 10 + DigitValue(s[Len(s)])

\* C9: the n-th generated id is the decimal numeral of n, filled with zeros
\* on the left to three characters (longer from 1000 on); it is greater than
\* the one before and differs from every earlier one, whatever constructions
\* with an explicit id happen in between.  (Stated of the latest id: every
\* earlier one was the latest in an earlier state.)
C9_AutoIds ==
    LET n == Len(auto_ids) IN
    /\ id_counter = n + 1
    /\ n >= 1 =>
          /\ auto_ids[1] = <<"0", "0", "1">>
          /\ IsDigits(auto_ids[n])
          /\ ParseInt(auto_ids[n]) = n
          /\ Len(auto_ids[n]) >= 3
          /\ Len(auto_ids[n]) > 3 => auto_ids[n][1] # "0"
          /\ n <= 999 => Len(auto_ids[n]) = 3
          /\ n >= 2 => ParseInt(auto_ids[n - 1]) < ParseInt(auto_ids[n])
          /\ \A j \in 1..(n - 1) : auto_ids[j] # auto_ids[n]

C9_Witness ==
    /\ Len(auto_ids) = 1000
    /\ auto_ids[999] = <<"9", "9", "9">>
    /\ auto_ids[1000] = <<"1", "0", "0", "0">>
    /\ n_explicit >= 1

\* the descriptions of the entities of a registry, in its order
Descriptions(d) == [i \in 1..Len(d) |-> __str__(heap[d[i].value])]

\* C10: in multi mode list-specs returns the description of every entity of
\* the registry, one block per entity, in registry order.
C10_ListSpecsDescribes ==
    (specs_out.called /\ ~specs_out.single_sub_agent) =>
        /\ specs_out.raised = None
        /\ specs_out.text = Join("\n", Descriptions(specs_out.registry))

\* the number a status string reports
ReportedDigits(result) == SubSeq(result, 2, Len(result) - 1)
ReportedSteps(result) == ParseInt(ReportedDigits(result))

\* C11: a run that has returned reports, in its status string, the 0-based
\* index of its last executed step: the number of model invocations it made
\* minus one, which is max_steps - 1 when it ended without a termination
\* result.
C11_StatusIndex ==
    \A k \in RunCalls :
        inv[k].pc = "done" =>
            /\ Len(inv[k].result) >= 3
            /\ inv[k].result[1] = "Sub agent ran for "
            /\ inv[k].result[Len(inv[k].result)] =
                   " steps. You can now ask it questions."
            /\ IsDigits(ReportedDigits(inv[k].result))
            /\ ReportedSteps(inv[k].result) = Len(Assistants(k)) - 1
            /\ ~Terminated(k) =>
                   ReportedSteps(inv[k].result) = Entity(k).max_steps - 1

C11_Witness ==
    /\ \E k \in RunCalls :
           /\ inv[k].pc = "done" /\ ~Terminated(k)
           /\ Entity(k).max_steps = MaxStepsArg
           /\ inv[k].result[2] = Digit[MaxStepsArg]
    /\ \E k \in RunCalls :
           /\ inv[k].pc = "done" /\ Terminated(k)
           /\ Len(Assistants(k)) = 1
           /\ inv[k].result[2] = "0"

Resolved == RunCalls \cup ChatCalls
Persisted(k) == inv[k].n_update_store = 1
DifferentSubAgents(j, k) ==
    /\ inv[j].agent # inv[k].agent
    /\ Entity(j).agent_id # Entity(k).agent_id

\* two invocations on different sub-agents are both suspended
Interleaving ==
    \E j, k \in Resolved :
        j < k /\ DifferentSubAgents(j, k) /\ Stepping(j) /\ Stepping(k)

\* the registry no longer holds what invocation j persisted, after another
\* invocation on a different sub-agent has persisted
LostUpdate ==
    \E j, k \in Resolved :
        /\ DifferentSubAgents(j, k)
        /\ Persisted(j) /\ Persisted(k)
        /\ LookupOf(j) # inv[j].agent

CallNow(kind, id) ==
    IF kind = "run"
    THEN EnterRun(Len(inv) + 1, _get_agent(store, id), "instructions", heap)
    ELSE EnterChat(Len(inv) + 1, _get_agent(store, id), "question", heap)

TaggedBy(k) ==
    {r \in Refs : \E i \in 1..Len(heap[r].messages) :
                      heap[r].messages[i].call = k}

\* C13: in every state, a multi-mode run or chat call with an id that is not
\* in the registry raises (it returns no text), calls neither generate nor
\* call_tools, does not persist, and leaves the store and every entity's
\* messages as they are; and every call made so far that resolved no entity
\* ended that way.
C13_UnknownIdFails ==
    /\ \A id \in AllIds \ {NoneSeq}, kind \in {"run", "chat"} :
          ~DictHas(StoreGet(store, EmptyDict), id) =>
              LET out == CallNow(kind, id) IN
              /\ out.call.agent = NoneRef
              /\ out.call.pc = "failed"
              /\ out.call.error = "AttributeError"
              /\ out.call.result = <<>>
              /\ out.call.n_generate = 0
              /\ out.call.n_call_tools = 0
              /\ out.call.n_update_store = 0
              /\ out.heap = heap
              /\ StoreAfter(NewCall(kind, NoneRef, "", heap), out.call,
                            store, out.heap) = store
    /\ \A k \in Calls :
          inv[k].agent = NoneRef =>
              /\ inv[k].pc = "failed"
              /\ inv[k].error = "AttributeError"
              /\ inv[k].result = <<>>
              /\ inv[k].n_generate = 0
              /\ inv[k].n_call_tools = 0
              /\ inv[k].n_update_store = 0
              /\ TaggedBy(k) = {}

C13_Witness ==
    /\ Len(registered) = 2
    /\ Len(inv) = 2
    /\ inv[1].agent # NoneRef /\ inv[1].pc = "done"
    /\ inv[2].agent = NoneRef /\ inv[2].error = "AttributeError"
    /\ \A r \in Refs : Len(heap[r].messages) = 1 \/ r = inv[1].agent
    /\ LookupOf(1) = inv[1].agent

\* C14: in every state, building for the empty list returns no tool and the
\* store it leaves is the store it found: the same registry, entry for
\* entry, or still none; and a registry exists only once a non-empty list
\* was built.
C14_EmptyBuild ==
    /\ init_sub_agents(<<>>, store, heap).ret = <<>>
    /\ init_sub_agents(<<>>, store, heap).store = store
    /\ store.has <=> registered # <<>>
    /\ ~store.has => store = NoStore /\ issued = {}

C14_Witness ==
    /\ store.has
    /\ Len(store.sub_agents) = 2
    /\ issued # {}
    /\ init_sub_agents(<<>>, store, heap) = [ret |-> <<>>, store |-> store]
    /\ init_sub_agents(<<>>, NoStore, heap) = [ret |-> <<>>, store |-> NoStore]

\* C15: every step of every operation (construction, build, run, chat,
\* failing ones included) leaves each entity's history with the history it
\* had as a prefix, non-empty and starting with the system message; an
\* entity that a step constructs starts with exactly the system message.
C15_AppendOnly ==
    [][/\ Len(heap') >= Len(heap)
       /\ \A r \in 1..Len(heap') :
             IF r <= Len(heap)
             THEN /\ heap[r].messages # <<>>
                  /\ heap[r].messages[1] = ChatMessageSystem
                  /\ IsPrefix(heap[r].messages, heap'[r].messages)
             ELSE heap'[r].messages = <<ChatMessageSystem>>]_vars

C15_Witness ==
    \E j, k \in Resolved :
        /\ inv[j].agent = inv[k].agent
        /\ CollaboratorFailed(j)
        /\ inv[k].pc = "done"
        /\ Len(Entity(k).messages) >= 6
        /\ Entity(k).messages[1] = ChatMessageSystem
        /\ \A i \in 2..Len(Entity(k).messages) :
               Entity(k).messages[i].role # "system"

Contains(list, x) == \E i \in 1..Len(list) : list[i] = x

\* C16: every step leaves the tools stored on each entity as they were, an
\* entity is constructed with the tools it was given, and no stored tool set
\* contains the termination tool; the registry's values are these same
\* objects.  The termination tool is in what a run has passed to generate
\* and call_tools (the entity's tools followed by it) and in nothing a chat
\* has passed.
C16_StoredTools ==
    [][/\ \A r \in 1..Len(heap') :
             /\ r <= Len(heap) => heap'[r].tools = heap[r].tools
             /\ r > Len(heap) =>
                    \E args \in ConstructorArgs : heap'[r].tools = args.tools
             /\ ~Contains(heap'[r].tools, END_RUN)
       /\ \A i \in 1..Len(store'.sub_agents) :
             /\ store'.sub_agents[i].value \in 1..Len(heap')
             /\ heap'[store'.sub_agents[i].value].agent_id =
                    store'.sub_agents[i].key
       /\ \A k \in 1..Len(inv') :
             inv'[k].agent # NoneRef =>
                 IF inv'[k].kind = "run" /\ inv'[k].n_generate > 0
                 THEN inv'[k].offered =
                          heap'[inv'[k].agent].tools \o <<END_RUN>>
                 ELSE inv'[k].offered = <<>>]_vars

C16_Witness ==
    \E j, k \in RunCalls :
        /\ j < k
        /\ inv[j].agent = inv[k].agent
        /\ inv[j].pc = "done" /\ Terminated(j)
        /\ Stepping(k)
        /\ inv[k].offered = <<DUMMY_TOOL, END_RUN>>
        /\ LookupOf(k) = inv[k].agent
        /\ heap[LookupOf(k)].tools = <<DUMMY_TOOL>>

\* the registry before and after the step
Registry == StoreGet(store, EmptyDict)
RegistryAfter == StoreGet(store', EmptyDict)

\* the step is the persist of invocation k
Persists(k) ==
    /\ k \in 1..Len(inv)
    /\ inv'[k].n_update_store = inv[k].n_update_store + 1

\* what a persist of the entity `ref` may do to the registry: set the entry
\* of its id, in place or as a new last entry, and nothing else
OnlyOwnEntry(ref) ==
    LET id == heap'[ref].agent_id IN
    /\ DictHas(RegistryAfter, id)
    /\ DictGet(RegistryAfter, id) = ref
    /\ Len(RegistryAfter) =
           Len(Registry) + (IF DictHas(Registry, id) THEN 0 ELSE 1)
    /\ \A i \in 1..Len(Registry) :
           /\ RegistryAfter[i].key = Registry[i].key
           /\ Registry[i].key # id => RegistryAfter[i] = Registry[i]

DefaultAgentStays ==
    /\ Registry # EmptyDict
    /\ _get_agent(store', NoneSeq) = _get_agent(store, NoneSeq)

\* C17 as stated: a persist touches only the entry of the entity's id, keeps
\* every other entry and the order of the ids, adds a new id last, and the
\* default agent is the same entity before and after.
C17_PersistFrameAndDefault ==
    [][\A k \in 1..MaxCalls :
          Persists(k) => OnlyOwnEntry(inv[k].agent) /\ DefaultAgentStays]_vars

\* C17 amended: a persist touches only the entry of the entity's id, keeps
\* every other entry and the order of the ids, adds a new id last, and the
\* id a lookup without id resolves to stays the same; the default agent is
\* the same entity before and after unless the persisted entity has that
\* first id and is not the object registered under it.
C17_PersistFrame ==
    [][\A k \in 1..MaxCalls :
          Persists(k) =>
              /\ OnlyOwnEntry(inv[k].agent)
              /\ Registry # EmptyDict
              /\ RegistryAfter[1].key = Registry[1].key
              /\ (Registry[1].key # heap[inv[k].agent].agent_id
                    \/ Registry[1].value = inv[k].agent)
                   => DefaultAgentStays]_vars

C17_Witness ==
    /\ Len(registered) = 1
    /\ Len(Registry) = 2
    /\ Registry[1].value = registered[1]
    /\ _get_agent(store, NoneSeq).value = registered[1]
    /\ \E k \in Resolved :
           /\ Persisted(k)
           /\ Registry[2].value = inv[k].agent
           /\ Registry[2].key = Entity(k).agent_id

\* TERMINATED_EXPLICIT and TERMINATED_BUDGET of a run that has left the loop
TerminatedExplicit(k) == inv[k].pc = "done" /\ Terminated(k)
TerminatedBudget(k) ==
    /\ inv[k].pc = "done" /\ ~Terminated(k)
    /\ inv[k].n_generate = Entity(k).max_steps

\* C18, the part a finite run refutes: a run invocation whose collaborators
\* all returned and that has ended is in exactly one of the two terminal
\* states, has persisted and has returned its status string; it is in
\* TERMINATED_BUDGET exactly when no step produced a termination result.
C18_EndsTerminal ==
    \A k \in RunCalls :
        (Ended(k) /\ ~CollaboratorFailed(k)) =>
            /\ TerminatedExplicit(k) \/ TerminatedBudget(k)
            /\ ~(TerminatedExplicit(k) /\ TerminatedBudget(k))
            /\ TerminatedBudget(k) <=> ~Terminated(k)
            /\ inv[k].n_update_store = 1
            /\ inv[k].result = StatusString(inv[k].steps)

\* C18 on the entities that were given a tool list.
C18_EndsTerminalWithTools ==
    \A k \in RunCalls :
        (Ended(k) /\ ~CollaboratorFailed(k) /\ Entity(k).tools # NoneSeq) =>
            /\ TerminatedExplicit(k) \/ TerminatedBudget(k)
            /\ ~(TerminatedExplicit(k) /\ TerminatedBudget(k))
            /\ TerminatedBudget(k) <=> ~Terminated(k)
            /\ inv[k].n_update_store = 1
            /\ inv[k].result = StatusString(inv[k].steps)

\* C18 on the entities that were given a tool list: under SpecConc, where
\* every collaborator call returns, a stepping run is eventually done.
C18_LeavesStepping ==
    \A k \in 1..MaxCalls :
        (k \in RunCalls /\ Stepping(k)) ~> (k \in Calls /\ inv[k].pc = "done")

\* C19: a run of an entity constructed without tools raises nothing, passes
\* exactly the termination tool to generate, and ends in a terminal state of
\* the loop (unless a collaborator fails).
C19_RunWithoutTools ==
    \A k \in RunCalls :
        Entity(k).tools = NoneSeq =>
            /\ inv[k].error \in {None, "collaborator"}
            /\ inv[k].n_generate >= 1
            /\ inv[k].offered = <<END_RUN>>
            /\ (Ended(k) /\ ~CollaboratorFailed(k)) => inv[k].pc = "done"

\* the positions of invocation k's messages in its entity's history, and
\* the pairs of them with none of its own messages in between
Positions(k) ==
    {i \in 1..Len(Entity(k).messages) : Entity(k).messages[i].call = k}
Neighbours(k) ==
    {p \in Positions(k) \X Positions(k) :
        /\ p[1] < p[2]
        /\ \A m \in (p[1] + 1)..(p[2] - 1) : m \notin Positions(k)}
RolesAt(k, p) ==
    <<Entity(k).messages[p[1]].role, Entity(k).messages[p[2]].role>>

\* two invocations on the same entity, the later one started while the
\* earlier one was suspended
SameAgentMeanwhile(j, k) ==
    /\ j < k
    /\ inv[j].agent = inv[k].agent
    /\ inv[k].meanwhile

\* C20 as stated: nothing of another invocation stands between an
\* invocation's user message and its first assistant message, or between an
\* assistant message and the tool results of its step.
C20_Contiguous ==
    \A k \in Resolved : \A p \in Neighbours(k) :
        RolesAt(k, p) \in {<<"user", "assistant">>, <<"assistant", "tool">>}
            => p[2] = p[1] + 1

\* C20 amended: an invocation's own messages keep their order and shape
\* (user message, then per step the assistant message and its results), and
\* the results of one dispatch stand together, whatever else interleaves;
\* only the appends of one uninterrupted stretch are contiguous.
C20_BlocksContiguous ==
    /\ \A k \in RunCalls : Own(k) = ExpectedOwn(k)
    /\ \A k \in ChatCalls :
          Own(k) = IF inv[k].pc = "done"
                   THEN <<ChatMessageUser(inv[k].arg, k), inv[k].output>>
                   ELSE <<ChatMessageUser(inv[k].arg, k)>>
    /\ \A k \in Resolved : \A p \in Neighbours(k) :
          RolesAt(k, p) = <<"tool", "tool">> => p[2] = p[1] + 1

C20_Witness ==
    \E j, k \in RunCalls :
        /\ SameAgentMeanwhile(j, k)
        /\ inv[j].pc = "done" /\ inv[k].pc = "done"
        /\ \E p \in Neighbours(j) :
               RolesAt(j, p) = <<"user", "assistant">> /\ p[2] > p[1] + 1
        /\ \E p \in Neighbours(k) :
               RolesAt(k, p) = <<"assistant", "tool">> /\ p[2] > p[1] + 1
        /\ \E p \in Neighbours(j) :
               RolesAt(j, p) = <<"tool", "tool">> /\ p[2] = p[1] + 1

====
